---- MODULE Spec2Model ----
(***************************************************************************)
(* Model of src/git-merger.py: a linear script that parses a pull-request  *)
(* URL, fetches the PR, its reviews and its statuses from the forge,       *)
(* applies the approval / required-check gate, merges, and writes the      *)
(* resulting record to git_merge_ouput.json.                               *)
(*                                                                         *)
(* Strings that the code takes apart (the URL, PR_MERGE_STATUS_LABELS,     *)
(* check contexts) are sequences of one-character strings; literal text    *)
(* the code only concatenates is kept as one element.  A Python exception  *)
(* is pc = "failed" with the kind of exception in error.  Init is the      *)
(* state at line 233, after argument parsing and the token lookup of       *)
(* lines 19-30 succeeded.  A response carries a JSON body of the shape the *)
(* forge documents, except a 204 (No Content), which carries none, so      *)
(* that resp.json() raises JSONDecodeError.  PR_MERGE_APPROVAL_COUNT,      *)
(* when set, is a decimal digit.                                           *)
(***************************************************************************)
EXTENDS Integers, Sequences, FiniteSets, TLC

VARIABLES pr_url, env, forge, pc, pr_info, pr, pr_reviews, pr_checks,
          requests, last_status, error, output_file

vars == <<pr_url, env, forge, pc, pr_info, pr, pr_reviews, pr_checks,
          requests, last_status, error, output_file>>

(* ------------------------------ bounds --------------------------------- *)
MaxPathLen == 7
MaxReviews == 3
MaxChecks == 1
MaxLabelLen == 2

(* --------------------------- input domains ----------------------------- *)
SeqsUpTo(S, n) == UNION {[1..k -> S] : k \in 0..n}

HostPrefix == "https://github.com"
PathChars == {"/", "o", "1", ";", "\t"}
UrlSuffixes == {<<>>, <<"?", "q">>, <<"#", "f">>}

\* what may follow the host: nothing, or text whose first character other
\* than the dropped tab is a slash (anything else would belong to the host)
UrlPaths ==
    {p \in SeqsUpTo(PathChars, MaxPathLen) :
        LET kept == {i \in 1..Len(p) : p[i] # "\t"}
        IN \A i \in kept : (\A j \in kept : i <= j) => p[i] = "/"}
AllUrls == {<<HostPrefix>> \o p \o q : p \in UrlPaths, q \in UrlSuffixes}

ValidUrl == <<HostPrefix, "/", "o", "/", "r", "/", "p", "/", "1">>
ShortUrl == <<HostPrefix, "/", "o", "/", "r">>
MainUrls == {ValidUrl, ShortUrl}

ReviewStates == {"APPROVED", "COMMENTED"}
ReviewLists == SeqsUpTo([state : ReviewStates], MaxReviews)

LabelChars == {"c", "i"}
CheckContexts == {<<"c">>, <<"c", "i">>}
CheckStates == {"success", "failure"}
CheckLists == SeqsUpTo([context : CheckContexts, state : CheckStates], MaxChecks)

StatusesUrl == <<"https://api.github.com/repos/statuses/sha">>
PrObjects == {[head |-> [ref |-> "feature"], base |-> [ref |-> "main"],
               merged |-> m, statuses_url |-> StatusesUrl] : m \in BOOLEAN}
MergeResponse == [sha |-> "abc123", merged |-> TRUE,
                  message |-> "Pull Request successfully merged"]

Forges == [pr : PrObjects, reviews : ReviewLists, statuses : CheckLists,
           merge : {MergeResponse}]
TwoApprovals == <<[state |-> "APPROVED"], [state |-> "APPROVED"]>>
SmallForges == [pr : PrObjects, reviews : {TwoApprovals},
                statuses : {<<>>}, merge : {MergeResponse}]

EmptyDict == <<>>
ApprovalEnvs == {EmptyDict} \cup
                {[PR_MERGE_APPROVAL_COUNT |-> d] : d \in {"1", "3"}}
LabelEnvs == {EmptyDict} \cup
             {[PR_MERGE_STATUS_LABELS |-> l] :
                 l \in SeqsUpTo(LabelChars, MaxLabelLen) \ {<<>>}}
Envs == {a @@ l : a \in ApprovalEnvs, l \in LabelEnvs}

StatusCodes == {200, 201, 204, 205, 404}

(* ----------------------------- helpers --------------------------------- *)
\* dict.update(m): keys of m override
Update(d, m) == m @@ d

Digits == <<"0", "1", "2", "3", "4", "5", "6", "7", "8", "9">>
\* int(s) for a one-digit decimal string
IntOf(s) == (CHOOSE i \in 1..10 : Digits[i] = s) - 1

\* urlsplit drops tab, CR and LF from the URL before splitting it
remove_unsafe(s) ==
    LET is_kept(ch) == ch \notin {"\t", "\r", "\n"}
    IN SelectSeq(s, is_kept)

\* _splitparams: the ';params' of the last path segment are cut off
splitparams(path) ==
    LET slashes == {i \in 1..Len(path) : path[i] = "/"}
        from == IF slashes = {} THEN 1
                ELSE CHOOSE i \in slashes : \A j \in slashes : i >= j
        semis == {i \in from..Len(path) : path[i] = ";"}
    IN IF semis = {} THEN path
       ELSE SubSeq(path, 1, (CHOOSE i \in semis : \A j \in semis : i <= j) - 1)

\* urlparse(url).path for an https URL: what follows scheme and host, without
\* tab/CR/LF, up to the fragment or query, without the params of the last
\* segment
urlparse_path(url) ==
    LET rest == remove_unsafe(Tail(url))
        cut == {i \in 1..Len(rest) : rest[i] \in {"?", "#"}}
        end == IF cut = {} THEN Len(rest)
               ELSE (CHOOSE i \in cut : \A j \in cut : i <= j) - 1
    IN splitparams(SubSeq(rest, 1, end))

RECURSIVE lstrip(_, _)
lstrip(s, ch) == IF s # <<>> /\ Head(s) = ch THEN lstrip(Tail(s), ch) ELSE s

RECURSIVE rstrip(_, _)
rstrip(s, ch) ==
    IF s # <<>> /\ s[Len(s)] = ch THEN rstrip(SubSeq(s, 1, Len(s) - 1), ch)
    ELSE s

\* str.split(sep): always at least one piece, empty pieces kept
RECURSIVE split(_, _)
split(s, sep) ==
    LET at == {i \in 1..Len(s) : s[i] = sep}
    IN IF at = {} THEN <<s>>
       ELSE LET i == CHOOSE k \in at : \A j \in at : k <= j
            IN <<SubSeq(s, 1, i - 1)>> \o split(SubSeq(s, i + 1, Len(s)), sep)

get_env_var_value(env_var, default_val) ==
    IF env_var \in DOMAIN env THEN env[env_var] ELSE default_val

is_success_status_204_missing(status_code) ==
    status_code \in {200, 201, 202, 203}

is_success_status(status_code) == status_code \in {200, 201, 202, 203, 204}

\* a 204 response has no body: resp.content is empty
has_body(status_code) == status_code # 204

\* get_reponse_json: the parsed body, the error of resp.json() on an empty
\* body, or the API error
get_reponse_json(status_code, body) ==
    IF is_success_status(status_code)
    THEN IF has_body(status_code)
         THEN [error |-> "none", output |-> body]
         ELSE [error |-> "JSONDecodeError", output |-> EmptyDict]
    ELSE [error |-> "ApiError", output |-> EmptyDict]

get_pr_url_info_wrong_index(url) ==
    LET pr_path == split(rstrip(lstrip(urlparse_path(url), "/"), "/"), "/")
    IN IF Len(pr_path) < 4
       THEN [ok |-> FALSE, url_info |-> EmptyDict]
       ELSE [ok |-> TRUE,
             url_info |->
               [org |-> pr_path[1], repo |-> pr_path[2], pr_number |-> pr_path[3],
                pr_api_url |-> <<"https://api.github.com/repos/">> \o pr_path[1]
                               \o <<"/">> \o pr_path[2] \o <<"/pulls/">>
                               \o pr_path[3],
                pr_repo_url |-> <<"https://github.com/">> \o pr_path[1]
                                \o <<"/">> \o pr_path[2] \o <<".git">>]]

get_pr_url_info(url) ==
    LET pr_path == split(rstrip(lstrip(urlparse_path(url), "/"), "/"), "/")
    IN IF Len(pr_path) < 4
       THEN [ok |-> FALSE, url_info |-> EmptyDict]
       ELSE [ok |-> TRUE,
             url_info |->
               [org |-> pr_path[1], repo |-> pr_path[2], pr_number |-> pr_path[4],
                pr_api_url |-> <<"https://api.github.com/repos/">> \o pr_path[1]
                               \o <<"/">> \o pr_path[2] \o <<"/pulls/">>
                               \o pr_path[4],
                pr_repo_url |-> <<"https://github.com/">> \o pr_path[1]
                                \o <<"/">> \o pr_path[2] \o <<".git">>]]

approved_reviews_any_state(reviews) == reviews

approved_reviews(reviews) ==
    LET is_approved(review) == review.state = "APPROVED"
    IN SelectSeq(reviews, is_approved)

\* the checks loop of get_checks_info; indexing the list of matches by
\* 'state' raises TypeError, so the append below it is never reached
RECURSIVE checks_loop(_, _, _)
checks_loop(checks, required_checks, failed) ==
    IF required_checks = <<>>
    THEN [error |-> "none", failed_checks |-> failed]
    ELSE LET required_check == <<Head(required_checks)>>
             matches(check) == check.context = required_check
             found_required_check == SelectSeq(checks, matches)
         IN IF found_required_check # <<>>
            THEN [error |-> "TypeError", failed_checks |-> failed]
            ELSE checks_loop(checks, Tail(required_checks), failed)

RECURSIVE checks_loop_first_match(_, _, _)
checks_loop_first_match(checks, required_checks, failed) ==
    IF required_checks = <<>>
    THEN [error |-> "none", failed_checks |-> failed]
    ELSE LET required_check == <<Head(required_checks)>>
             matches(check) == check.context = required_check
             found_required_check == SelectSeq(checks, matches)
         IN IF found_required_check # <<>>
               /\ found_required_check[1].state # "success"
            THEN checks_loop_first_match(checks, Tail(required_checks),
                                         Append(failed, found_required_check))
            ELSE checks_loop_first_match(checks, Tail(required_checks), failed)

get_checks_info_first_match(checks, required_checks) ==
    checks_loop_first_match(checks, required_checks, <<>>)

get_checks_info(checks, required_checks) ==
    checks_loop(checks, required_checks, <<>>)

\* the branch process_pr takes once get_pr_info has returned
process_pr_branch_ignores_merged(info) ==
    IF info.approvals < info.required_approvals THEN "ApprovalShortfall"
    ELSE IF Len(info.failed_checks) > 0 THEN "FailedChecks"
    ELSE "merge"

process_pr_branch(info) ==
    IF ~info.already_merged
    THEN IF info.approvals < info.required_approvals THEN "ApprovalShortfall"
         ELSE IF Len(info.failed_checks) > 0 THEN "FailedChecks"
         ELSE "merge"
    ELSE "return"

MergeBody == << <<"commit_title", "PR merged by PR Utility (Jenkins)">>,
                <<"commit_message",
                  "PR merged by PR Utility (Jenkins) with required checks">> >>

Get(url) == [method |-> "GET", url |-> url, data |-> <<>>]
Put(url, data) == [method |-> "PUT", url |-> url, data |-> data]

(* ------------------------------ states --------------------------------- *)
InitRun ==
    /\ pc = "parse_url"
    /\ pr_info = EmptyDict
    /\ pr = EmptyDict
    /\ pr_reviews = <<>>
    /\ pr_checks = <<>>
    /\ requests = <<>>
    /\ last_status = 0
    /\ error = "none"
    /\ output_file = <<>>

Init ==
    /\ pr_url \in MainUrls
    /\ env \in Envs
    /\ forge \in Forges
    /\ InitRun

InitUrl ==
    /\ pr_url \in AllUrls
    /\ env = EmptyDict
    /\ forge \in SmallForges
    /\ InitRun

Raise_swallowed(kind) ==
    /\ pc' = "write_output"
    /\ error' = kind

Raise(kind) ==
    /\ pc' = "failed"
    /\ error' = kind

(* ------------------------------ actions -------------------------------- *)
\* get_pr_info, lines 61-63
ParseUrl ==
    /\ pc = "parse_url"
    /\ LET r == get_pr_url_info(pr_url)
       IN IF r.ok
          THEN /\ pr_info' = Update(pr_info, r.url_info)
               /\ pc' = "get_pr"
               /\ error' = error
          ELSE /\ Raise("InvalidInput")
               /\ pr_info' = pr_info
    /\ UNCHANGED <<pr_url, env, forge, pr, pr_reviews, pr_checks, requests,
                   last_status, output_file>>

\* get_pr_info, lines 64-67
GetPr ==
    /\ pc = "get_pr"
    /\ \E status \in StatusCodes :
         /\ requests' = Append(requests, Get(pr_info.pr_api_url))
         /\ last_status' = status
         /\ LET resp == get_reponse_json(status, forge.pr)
            IN IF resp.error = "none"
               THEN /\ pr' = resp.output
                    /\ pr_info' = Update(pr_info,
                                    [source_branch |-> resp.output.head.ref,
                                     target_branch |-> resp.output.base.ref,
                                     already_merged |-> resp.output.merged])
                    /\ pc' = "get_reviews"
                    /\ error' = error
               ELSE /\ Raise(resp.error)
                    /\ UNCHANGED <<pr, pr_info>>
    /\ UNCHANGED <<pr_url, env, forge, pr_reviews, pr_checks, output_file>>

\* get_pr_info, lines 68-69, and get_approval_info
GetReviews ==
    /\ pc = "get_reviews"
    /\ \E status \in StatusCodes :
         /\ requests' = Append(requests,
                               Get(pr_info.pr_api_url \o <<"/reviews">>))
         /\ last_status' = status
         /\ LET resp == get_reponse_json(status, forge.reviews)
            IN IF resp.error = "none"
               THEN /\ pr_reviews' = resp.output
                    /\ pr_info' = Update(pr_info,
                         [approvals |-> Len(approved_reviews(resp.output)),
                          required_approvals |->
                            IntOf(get_env_var_value("PR_MERGE_APPROVAL_COUNT",
                                                    "2"))])
                    /\ pc' = "get_checks"
                    /\ error' = error
               ELSE /\ Raise(resp.error)
                    /\ UNCHANGED <<pr_reviews, pr_info>>
    /\ UNCHANGED <<pr_url, env, forge, pr, pr_checks, output_file>>

\* get_pr_info, lines 70-71, and get_checks_info
GetChecks ==
    /\ pc = "get_checks"
    /\ \E status \in StatusCodes :
         /\ requests' = Append(requests, Get(pr.statuses_url))
         /\ last_status' = status
         /\ LET resp == get_reponse_json(status, forge.statuses)
            IN IF resp.error = "none"
               THEN LET r == get_checks_info(resp.output,
                               get_env_var_value("PR_MERGE_STATUS_LABELS", <<>>))
                    IN /\ pr_checks' = resp.output
                       /\ IF r.error = "none"
                          THEN /\ pr_info' = Update(pr_info,
                                      [failed_checks |-> r.failed_checks])
                               /\ pc' = "evaluate"
                               /\ error' = error
                          ELSE /\ Raise(r.error)
                               /\ pr_info' = pr_info
               ELSE /\ Raise(resp.error)
                    /\ UNCHANGED <<pr_checks, pr_info>>
    /\ UNCHANGED <<pr_url, env, forge, pr, pr_reviews, output_file>>

\* process_pr, lines 42-47
Evaluate ==
    /\ pc = "evaluate"
    /\ LET branch == process_pr_branch(pr_info)
       IN IF branch = "merge" THEN pc' = "merge" /\ error' = error
          ELSE IF branch = "return" THEN pc' = "write_output" /\ error' = error
          ELSE Raise(branch)
    /\ UNCHANGED <<pr_url, env, forge, pr_info, pr, pr_reviews, pr_checks,
                   requests, last_status, output_file>>

\* process_pr, lines 48-49, and merge
Merge ==
    /\ pc = "merge"
    /\ \E status \in StatusCodes :
         /\ requests' = Append(requests,
                          Put(pr_info.pr_api_url \o <<"/merge">>, MergeBody))
         /\ last_status' = status
         /\ LET resp == get_reponse_json(status, forge.merge)
            IN IF resp.error = "none"
               THEN /\ pr_info' = Update(pr_info, resp.output)
                    /\ pc' = "write_output"
                    /\ error' = error
               ELSE /\ Raise(resp.error)
                    /\ pr_info' = pr_info
    /\ UNCHANGED <<pr_url, env, forge, pr, pr_reviews, pr_checks, output_file>>

\* module level, lines 233-236
WriteOutput ==
    /\ pc = "write_output"
    /\ output_file' = <<pr_info>>
    /\ pc' = "done"
    /\ UNCHANGED <<pr_url, env, forge, pr_info, pr, pr_reviews, pr_checks,
                   requests, last_status, error>>

Next ==
    \/ ParseUrl
    \/ GetPr
    \/ GetReviews
    \/ GetChecks
    \/ Evaluate
    \/ Merge
    \/ WriteOutput

Spec == Init /\ [][Next]_vars

SpecUrl == InitUrl /\ [][Next]_vars

(* ------------------------ vocabulary of the claims --------------------- *)
Terminal == pc \in {"done", "failed"}
PutRequests == {i \in 1..Len(requests) : requests[i].method = "PUT"}
PutIssued == PutRequests # {}
PrFetched == "already_merged" \in DOMAIN pr_info
ReviewsFetched == "approvals" \in DOMAIN pr_info
RequestErrors == {"ApiError", "JSONDecodeError"}
ChecksFetched ==
    Len(requests) >= 3 /\ ~(Len(requests) = 3 /\ error \in RequestErrors)
GateReached == "failed_checks" \in DOMAIN pr_info
NumApproved ==
    Cardinality({i \in 1..Len(pr_reviews) : pr_reviews[i].state = "APPROVED"})
Threshold ==
    IF "PR_MERGE_APPROVAL_COUNT" \in DOMAIN env
    THEN IntOf(env["PR_MERGE_APPROVAL_COUNT"]) ELSE 2
LabelsValue ==
    IF "PR_MERGE_STATUS_LABELS" \in DOMAIN env
    THEN env["PR_MERGE_STATUS_LABELS"] ELSE <<>>
\* the configured value read as one label (it holds no delimiter)
ConfiguredLabels == IF LabelsValue = <<>> THEN {} ELSE {LabelsValue}
\* the elements get_checks_info iterates over
IteratedLabels == {<<LabelsValue[i]>> : i \in 1..Len(LabelsValue)}
RunsWithContext(label) ==
    {i \in 1..Len(pr_checks) : pr_checks[i].context = label}

(* ------------------------------- C1 ------------------------------------ *)
\* C1 (as stated): when the PR is not merged and fewer reviews are APPROVED
\* than the threshold, the run fails with the approval-shortfall error, no
\* PUT is issued and no output is written; other review states never count.
C1_Original ==
    (ReviewsFetched /\ ~pr_info.already_merged) =>
        /\ NumApproved < Threshold =>
              /\ ~PutIssued
              /\ output_file = <<>>
              /\ Terminal => (pc = "failed" /\ error = "ApprovalShortfall")
        /\ NumApproved >= Threshold => error # "ApprovalShortfall"

\* C1 (amended): with the PR not merged and fewer APPROVED reviews than the
\* threshold, the run always fails, no PUT is issued and no output is
\* written; the failure is the approval-shortfall error whenever the run
\* reaches the gate, and otherwise the error of the statuses step that
\* aborted it first (API error, bodiless 204, or the abort in get_checks_info).  With at least threshold APPROVED reviews the
\* approval-shortfall error is never raised.
C1_ApprovalGate ==
    (ReviewsFetched /\ ~pr_info.already_merged) =>
        /\ NumApproved < Threshold =>
              /\ ~PutIssued
              /\ output_file = <<>>
              /\ Terminal => (pc = "failed"
                              /\ error \in {"ApprovalShortfall", "ApiError",
                                            "JSONDecodeError", "TypeError"})
              /\ (GateReached /\ pc # "evaluate") =>
                    (pc = "failed" /\ error = "ApprovalShortfall")
        /\ NumApproved >= Threshold => error # "ApprovalShortfall"

C1_Witness ==
    /\ pc = "failed" /\ error = "ApprovalShortfall"
    /\ ~pr_info.already_merged
    /\ Len(pr_reviews) = 3 /\ NumApproved = 1 /\ Threshold = 2

(* ------------------------------- C2 ------------------------------------ *)
\* C2: for a not-yet-merged, sufficiently approved PR, every configured
\* required label that has a check run with that context and a state other
\* than "success" makes the run fail with the failed-checks error, and no
\* PUT merge is issued.
C2_CheckGate ==
    \A label \in ConfiguredLabels :
        (/\ ChecksFetched
         /\ ~pr_info.already_merged
         /\ NumApproved >= Threshold
         /\ \E i \in RunsWithContext(label) : pr_checks[i].state # "success")
        => /\ ~PutIssued
           /\ Terminal => (pc = "failed" /\ error = "FailedChecks")

(* ------------------------------- C3 ------------------------------------ *)
\* C3: a run whose PR is already merged and whose GETs all succeed issues no
\* PUT and ends by writing the PR info; a run that ends successfully without
\* a PUT is one whose PR was already merged.
C3_AlreadyMergedSkip ==
    /\ (Terminal /\ PrFetched /\ pr_info.already_merged
          /\ error \notin RequestErrors)
          => (~PutIssued /\ pc = "done" /\ output_file = <<pr_info>>)
    /\ (pc = "done" /\ ~PutIssued) => pr_info.already_merged

(* ------------------------------- C4 ------------------------------------ *)
\* C4 (as stated): once the PR GET returned merged = true, no GET of the
\* reviews URL and no GET of the statuses URL is issued.
C4_Original ==
    (PrFetched /\ pr_info.already_merged) => Len(requests) = 1

\* C4 (amended): when merged is true the gate comparisons and the PUT merge
\* are skipped, but the reviews GET and the statuses GET are still issued
\* after the PR GET, in that order, before the run writes its output.
C4_MergedStillFetches ==
    (PrFetched /\ pr_info.already_merged) =>
        /\ ~PutIssued
        /\ error \notin {"ApprovalShortfall", "FailedChecks"}
        /\ pc \notin {"merge"}
        /\ pc \in {"evaluate", "write_output", "done"} =>
              requests = <<Get(pr_info.pr_api_url),
                           Get(pr_info.pr_api_url \o <<"/reviews">>),
                           Get(pr.statuses_url)>>

C4_Witness ==
    /\ pc = "done" /\ pr_info.already_merged
    /\ Len(requests) = 3
    /\ NumApproved < Threshold

(* ------------------------------- C5 ------------------------------------ *)
\* C5: a request answered with a status outside 200..204 aborts the run
\* there with the API error, no later request is issued and no output is
\* written; a status inside 200..204 does not raise the API error.
C5_State ==
    /\ requests = <<>> => error # "ApiError"
    /\ requests # <<>> => (error = "ApiError" <=> last_status \notin 200..204)
    /\ error = "ApiError" => (pc = "failed" /\ output_file = <<>>)

C5_Step ==
    error = "ApiError" => (requests' = requests /\ output_file' = output_file)

C5_ApiFailureFatal == []C5_State /\ [][C5_Step]_vars

C5_Witness ==
    /\ error = "ApiError" /\ last_status = 205 /\ Len(requests) = 4

(* ------------------------------- C6 ------------------------------------ *)
\* C6: a run with the PR not merged, enough approvals, no required check
\* failing and every request successful issues the PUT merge exactly once,
\* with the fixed title and message, and writes the merge response fields.
C6_EndToEndMerge ==
    (/\ Terminal /\ PrFetched /\ error \notin RequestErrors
     /\ ~pr_info.already_merged
     /\ NumApproved >= Threshold
     /\ \A label \in ConfiguredLabels :
           \A i \in RunsWithContext(label) : pr_checks[i].state = "success")
    => /\ pc = "done"
       /\ Cardinality(PutRequests) = 1
       /\ \A i \in PutRequests : requests[i].data = MergeBody
       /\ output_file # <<>>
       /\ \A k \in DOMAIN forge.merge :
             k \in DOMAIN output_file[1] /\ output_file[1][k] = forge.merge[k]

(* ------------------------------- C7 ------------------------------------ *)
\* C7: when a configured required label has no check run with that context,
\* the label is not recorded in failed_checks and does not make the gate
\* fail; a not-yet-merged PR with enough approvals, whose requests all
\* returned a body, then gets its PUT merge.
C7_AbsentCheckPasses ==
    (ChecksFetched /\ ConfiguredLabels # {}
     /\ \A label \in ConfiguredLabels : RunsWithContext(label) = {})
    => /\ error \notin {"FailedChecks", "TypeError"}
       /\ GateReached
       /\ pr_info.failed_checks = <<>>
       /\ (Terminal /\ ~pr_info.already_merged /\ NumApproved >= Threshold)
             => PutIssued

(* ------------------------------- C8 ------------------------------------ *)
\* the path without its leading and trailing slashes, and its segments: the
\* stretches between consecutive slashes
CorePath(p) ==
    LET kept == {i \in 1..Len(p) : p[i] # "/"}
    IN IF kept = {} THEN <<>>
       ELSE SubSeq(p, CHOOSE i \in kept : \A j \in kept : i <= j,
                      CHOOSE i \in kept : \A j \in kept : i >= j)
SlashesOf(c) == {i \in 1..Len(c) : c[i] = "/"}
\* position of the k-th slash of c (0 before the first, Len(c) + 1 after the last)
SlashAt(c, k) ==
    LET sl == SlashesOf(c)
    IN IF k = 0 THEN 0
       ELSE IF k > Cardinality(sl) THEN Len(c) + 1
       ELSE CHOOSE i \in sl : Cardinality({j \in sl : j <= i}) = k
SegmentOf(c, k) == SubSeq(c, SlashAt(c, k - 1) + 1, SlashAt(c, k) - 1)
PathOf == urlparse_path(pr_url)
NumSegments == Cardinality(SlashesOf(CorePath(PathOf))) + 1
Segment(k) == SegmentOf(CorePath(PathOf), k)

\* C8: a URL whose stripped path has fewer than 4 segments fails with the
\* invalid-input error before any request or output; with 4 or more, org,
\* repo and number are segments 0, 1 and 3 and the API URL is
\* https://api.github.com/repos/ORG/REPO/pulls/N.
C8_UrlParsing ==
    pc # "parse_url" =>
        LET core == CorePath(urlparse_path(pr_url))
            n == Cardinality(SlashesOf(core)) + 1
            org == SegmentOf(core, 1)
            repo == SegmentOf(core, 2)
            number == SegmentOf(core, 4)
        IN /\ n < 4 =>
                 /\ pc = "failed" /\ error = "InvalidInput"
                 /\ requests = <<>> /\ output_file = <<>>
           /\ n >= 4 =>
                 /\ error # "InvalidInput"
                 /\ pr_info.org = org
                 /\ pr_info.repo = repo
                 /\ pr_info.pr_number = number
                 /\ pr_info.pr_api_url =
                       <<"https://api.github.com/repos/">> \o org \o <<"/">>
                       \o repo \o <<"/pulls/">> \o number
                 /\ \A i \in 1..Len(pr_info.pr_api_url) :
                       pr_info.pr_api_url[i] # "\t"
                 /\ requests # <<>> => requests[1] = Get(pr_info.pr_api_url)

C8_Witness ==
    /\ pc = "done"
    /\ NumSegments = 4
    /\ Segment(3) # Segment(4)
    /\ pr_info.pr_number = <<"1">>
    /\ \E i \in 1..Len(pr_url) : pr_url[i] = ";"
    /\ \A i \in 1..Len(PathOf) : PathOf[i] # ";"

(* ------------------------------- C9 ------------------------------------ *)
StepOrder == {<<"parse_url", "get_pr">>, <<"get_pr", "get_reviews">>,
              <<"get_reviews", "get_checks">>, <<"get_checks", "evaluate">>,
              <<"evaluate", "merge">>, <<"evaluate", "write_output">>,
              <<"merge", "write_output">>, <<"write_output", "done">>}
              \cup {<<p, "failed">> : p \in {"parse_url", "get_pr", "get_reviews",
                                              "get_checks", "evaluate", "merge"}}
RequestsSoFar ==
    [parse_url |-> {0}, get_pr |-> {0}, get_reviews |-> {1}, get_checks |-> {2},
     evaluate |-> {3}, merge |-> {3}, write_output |-> {3, 4}, done |-> {3, 4},
     failed |-> 0..4]
ExpectedRequest(i) ==
    CASE i = 1 -> Get(pr_info.pr_api_url)
      [] i = 2 -> Get(pr_info.pr_api_url \o <<"/reviews">>)
      [] i = 3 -> Get(forge.pr.statuses_url)
      [] i = 4 -> Put(pr_info.pr_api_url \o <<"/merge">>, MergeBody)
C9_State ==
    /\ Len(requests) \in RequestsSoFar[pc]
    /\ \A i \in 1..Len(requests) : requests[i] = ExpectedRequest(i)
    /\ (pc = "failed") <=> (error # "none")
    /\ output_file # <<>> <=> pc = "done"
C9_Step ==
    /\ <<pc, pc'>> \in StepOrder
    /\ pc' # "failed" => Len(requests') >= Len(requests)
    /\ output_file # <<>> => output_file' = output_file

\* C9: the steps of a run occur only in the order parse URL, GET PR, GET
\* reviews, GET statuses, evaluate, PUT merge or skip, write output; a step
\* starts only after the earlier ones succeeded, at most one PUT is issued,
\* no GET follows it, and the output is written only as the last step of a
\* run in which nothing failed.
C9_LinearOrder == []C9_State /\ [][C9_Step]_vars

C9_Witness ==
    /\ pc = "done" /\ Len(requests) = 4 /\ requests[4].method = "PUT"
    /\ output_file = <<pr_info>>

(* ------------------------------- C10 ----------------------------------- *)
\* C10: failed_checks is empty in every run that reaches the gate and the
\* failed-checks error is never raised; whenever a check run's context equals
\* an iterated element of PR_MERGE_STATUS_LABELS the run aborts with a
\* TypeError, whatever that check's state is.
C10_FailedChecksAlwaysEmpty ==
    /\ GateReached => pr_info.failed_checks = <<>>
    /\ error # "FailedChecks"
    /\ (ChecksFetched /\ \E label \in IteratedLabels : RunsWithContext(label) # {})
          => (pc = "failed" /\ error = "TypeError" /\ ~GateReached
              /\ ~PutIssued /\ output_file = <<>>)

C10_Witness ==
    /\ error = "TypeError"
    /\ \E i \in 1..Len(pr_checks) :
          pr_checks[i].context = <<"c">> /\ pr_checks[i].state = "success"
    /\ \A i \in 1..Len(pr_checks) : pr_checks[i].state = "success"

====
